---------------------------- MODULE Spec2Model ----------------------------
(***************************************************************************)
(* Model of the mill-process record keeper (src/app.py): the derived-      *)
(* metrics computation derive_data, the persistence pair load_data /       *)
(* save_data with its load cache, and the three pages that mutate the      *)
(* stored table (file import, manual entry, in-table edit).                *)
(*                                                                         *)
(* A cell of a DataFrame is a record [k, n, d]:                            *)
(*   k = "num"   the finite number n/d (reduced, d > 0)                    *)
(*   k = "none"  Python None                                               *)
(*   k = "nan"   float NaN, or NaT in a datetime column                    *)
(*   k = "str"   a text that is neither a number nor a date                *)
(*   k = "date"  the timestamp of day n                                    *)
(*   k = "inf"   +inf (n = 1) or -inf (n = -1), produced by x / 0          *)
(*   k = "empty" an empty field of the CSV file on disk                    *)
(* Numbers are exact rationals: rounding of binary floats is not modelled. *)
(*                                                                         *)
(* Column names (src/app.py:24-28):                                        *)
(*   date = 日期, tonnage = 原矿吨数, ore_grade = 原矿金品位,                  *)
(*   tail_liq_grade = 尾液品位, tail_sol_grade = 尾固品位,                    *)
(*   tail_liq_gold = 尾液含金, tail_sol_gold = 尾固含金,                      *)
(*   of_conc = 溢流浓度, of_fine = 溢流细度, downtime = 停机时间,              *)
(*   tailings_grade = 尾矿品位, recovery_rate = 回收率,                       *)
(*   recovered_metal = 回收金属量                                            *)
(***************************************************************************)
EXTENDS Integers, Sequences, FiniteSets, TLC

VARIABLES
    file,     \* data.csv on disk
    cache,    \* st.cache_data's entry for load_data: [valid, value]
    df,       \* the module-level df of the current script run (NoTable
              \* between two runs)
    pc,       \* "run": a script run is about to start; "page": df is loaded
              \* and the selected page is about to execute
    mutated,  \* the table as mutated by the page just run (before derive_data)
    handed,   \* the table the page just run passed to save_data
    uploaded, \* the file import just run: the uploaded file
    normOut,  \* the file import just run: new_data_from_file as normalised
              \* (NoTable when the import was refused)
    T,        \* derive_data: the table it is called with
    out,      \* derive_data(T)
    out2,     \* derive_data(derive_data(T))
    dphase,   \* "off" | "init" | "derived" | "rederived" | "evaluated"
    formula,  \* evaluate: the column name and the expression it was given
    error     \* evaluate: "" or "FormulaInvalid"

avars == <<file, cache, df, pc, mutated, handed, uploaded, normOut>>
dvars == <<T, out, out2, dphase, formula, error>>
vars == <<file, cache, df, pc, mutated, handed, uploaded, normOut,
          T, out, out2, dphase, formula, error>>

\* Largest number of rows of a table.
MaxRows == 2

-----------------------------------------------------------------------------
(* Cells *)

Abs(x) == IF x < 0 THEN -x ELSE x

RECURSIVE GCD(_, _)
GCD(a, b) == IF b = 0 THEN a ELSE GCD(b, a % b)

Num(n, d) ==
    LET g == GCD(Abs(n), d)
    IN  [k |-> "num", n |-> n \div g, d |-> d \div g]

Int2Num(i) == [k |-> "num", n |-> i, d |-> 1]
None    == [k |-> "none", n |-> 0, d |-> 1]
NaN     == [k |-> "nan", n |-> 0, d |-> 1]
Str     == [k |-> "str", n |-> 0, d |-> 1]
PosInf  == [k |-> "inf", n |-> 1, d |-> 1]
NegInf  == [k |-> "inf", n |-> -1, d |-> 1]
Empty   == [k |-> "empty", n |-> 0, d |-> 1]
Date(i) == [k |-> "date", n |-> i, d |-> 1]

\* pandas.isna: None, NaN and NaT are missing; +-inf is not.
isna(v) == v.k \in {"none", "nan"}

\* Series + Series, elementwise (operands are finite numbers or missing).
Add(a, b) ==
    IF a.k = "num" /\ b.k = "num"
    THEN Num(a.n * b.d + b.n * a.d, a.d * b.d)
    ELSE NaN

\* Series - Series, elementwise.
Sub(a, b) ==
    IF a.k = "num" /\ b.k = "num"
    THEN Num(a.n * b.d - b.n * a.d, a.d * b.d)
    ELSE NaN

\* Series * Series, elementwise.
Mul(a, b) ==
    IF a.k = "num" /\ b.k = "num"
    THEN Num(a.n * b.n, a.d * b.d)
    ELSE NaN

\* Series / Series, elementwise float division: x/0 is +-inf, 0/0 is NaN,
\* never an exception.
Div(a, b) ==
    IF a.k = "num" /\ b.k = "num"
    THEN IF b.n = 0
         THEN IF a.n > 0 THEN PosInf
              ELSE IF a.n < 0 THEN NegInf
              ELSE NaN
         ELSE IF b.n > 0 THEN Num(a.n * b.d, a.d * b.n)
              ELSE Num(-(a.n * b.d), a.d * (-b.n))
    ELSE NaN

\* A bug clip could have: no clamping at all.
clip_off(v) == v

\* Series.clip(lower=0, upper=1): NaN stays NaN, +inf -> 1, -inf -> 0.
clip(v) ==
    IF v.k = "inf" THEN (IF v.n > 0 THEN Int2Num(1) ELSE Int2Num(0))
    ELSE IF v.k # "num" THEN NaN
    ELSE IF v.n < 0 THEN Int2Num(0)
    ELSE IF v.n > v.d THEN Int2Num(1)
    ELSE v

\* pd.to_numeric(errors='coerce') on one cell.
to_numeric(v) == IF v.k = "num" THEN v ELSE NaN

\* pd.to_datetime(errors='coerce') on one cell.
to_datetime(v) == IF v.k = "date" THEN v ELSE NaN

-----------------------------------------------------------------------------
(* Tables: [cols |-> sequence of column names, rows |-> sequence of rows],  *)
(* a row being a function from the column names to cells.  The position of  *)
(* a row is its index label (RangeIndex).                                   *)

expected_columns ==
    << "date", "tonnage", "ore_grade", "tail_liq_grade", "tail_sol_grade",
       "tail_liq_gold", "tail_sol_gold", "of_conc", "of_fine", "downtime",
       "tailings_grade", "recovery_rate", "recovered_metal" >>

Range(s) == {s[i] : i \in DOMAIN s}

numeric_cols ==
    {"tonnage", "ore_grade", "tail_liq_gold", "tail_sol_gold",
     "of_conc", "of_fine", "downtime"}

required_cols == {"tonnage", "ore_grade", "tail_liq_gold", "tail_sol_gold"}

\* The columns derive_data assigns.
DerivedCols == {"tailings_grade", "recovery_rate", "recovered_metal"}

\* df[col] = pd.to_numeric(df[col], errors='coerce') for col in numeric_cols
coerce_numeric(t) ==
    [t EXCEPT !.rows =
        [i \in DOMAIN t.rows |->
            [c \in DOMAIN t.rows[i] |->
                IF c \in numeric_cols THEN to_numeric(t.rows[i][c])
                ELSE t.rows[i][c]]]]

\* df.dropna(subset=required): the index labels of the rows kept.
dropna(t) ==
    {i \in DOMAIN t.rows : \A c \in required_cols : ~isna(t.rows[i][c])}

\* A bug: the gold-content columns confused with the grade readings.
tailings_grade_of_readings(r) == Add(r["tail_liq_grade"], r["tail_sol_grade"])

tailings_grade(r) == Add(r["tail_liq_gold"], r["tail_sol_gold"])

recovery_rate(r) ==
    clip(Div(Sub(r["ore_grade"], r["tailings_grade"]), r["ore_grade"]))

recovered_metal(r) ==
    Mul(Mul(r["tonnage"], r["ore_grade"]), r["recovery_rate"])

\* A bug: recovered metal computed before the new recovery rate is assigned.
calculated_stale_rate(r) ==
    LET r1 == [r  EXCEPT !["tailings_grade"] = tailings_grade(r)]
        r2 == [r1 EXCEPT !["recovery_rate"] = recovery_rate(r1)]
    IN  [r2 EXCEPT !["recovered_metal"] = recovered_metal(r1)]

\* The three column assignments on df_calculated, for one of its rows.
calculated(r) ==
    LET r1 == [r  EXCEPT !["tailings_grade"] = tailings_grade(r)]
        r2 == [r1 EXCEPT !["recovery_rate"] = recovery_rate(r1)]
    IN  [r2 EXCEPT !["recovered_metal"] = recovered_metal(r2)]

\* A bug update could have: plain assignment of the reindexed frame, missing
\* values included.
update_assign(t, idx, calc) ==
    [t EXCEPT !.rows =
        [i \in DOMAIN t.rows |->
            [c \in DOMAIN t.rows[i] |->
                IF c \in DerivedCols
                THEN (IF i \in idx THEN calc[i][c] ELSE NaN)
                ELSE t.rows[i][c]]]]

\* A bug update could have: df_calculated renumbered 0..n-1 before the merge,
\* so that its k-th row lands on row k.
update_renumbered(t, idx, calc) ==
    LET nth(k) == CHOOSE i \in idx : Cardinality({j \in idx : j < i}) = k - 1
    IN  [t EXCEPT !.rows =
            [i \in DOMAIN t.rows |->
                [c \in DOMAIN t.rows[i] |->
                    IF i <= Cardinality(idx) /\ ~isna(calc[nth(i)][c])
                    THEN calc[nth(i)][c]
                    ELSE t.rows[i][c]]]]

\* df.update(df_calculated): aligned on the index label, a cell is overwritten
\* only by a value of df_calculated that is not missing.
update(t, idx, calc) ==
    [t EXCEPT !.rows =
        [i \in DOMAIN t.rows |->
            [c \in DOMAIN t.rows[i] |->
                IF i \in idx /\ ~isna(calc[i][c])
                THEN calc[i][c]
                ELSE t.rows[i][c]]]]

\* df['date'] = pd.to_datetime(df['date'], errors='coerce')
normalize_date(t) ==
    [t EXCEPT !.rows =
        [i \in DOMAIN t.rows |->
            [t.rows[i] EXCEPT !["date"] = to_datetime(t.rows[i]["date"])]]]

derive_data(df0) ==
    LET t   == coerce_numeric(df0)
        idx  == dropna(t)
        calc == [i \in idx |-> calculated(t.rows[i])]
    IN  normalize_date(update(t, idx, calc))

-----------------------------------------------------------------------------
(* derive_data as a function: the tables it is applied to *)

Row(date, t, g, l, s, tg, rr, rm) ==
    [c \in Range(expected_columns) |->
        CASE c = "date"            -> date
          [] c = "tonnage"         -> t
          [] c = "ore_grade"       -> g
          [] c = "tail_liq_gold"   -> l
          [] c = "tail_sol_gold"   -> s
          [] c = "tailings_grade"  -> tg
          [] c = "recovery_rate"   -> rr
          [] c = "recovered_metal" -> rm
          [] c = "tail_liq_grade"  -> Int2Num(7)
          [] c = "tail_sol_grade"  -> Int2Num(7)
          [] OTHER                 -> Int2Num(1)]

\* Derived fields before the call: never computed, or some earlier numbers.
PriorDerived == { <<None, None, None>>, <<Int2Num(5), Int2Num(5), Int2Num(5)>> }

\* Rows whose four required fields are all numbers.
ComputableRows ==
    { Row(Date(1), Int2Num(3), Int2Num(g), Int2Num(l), Int2Num(0),
          p[1], p[2], p[3]) :
        g \in {2, 0, -2}, l \in {1, 3, -1, 0}, p \in PriorDerived }
    \cup { Row(Str, Int2Num(3), Int2Num(2), Int2Num(1), Int2Num(0),
               None, None, None) }

\* Rows with one required field missing or not a number.
IncompleteRows ==
    { Row(d, q[1], q[2], q[3], q[4], p[1], p[2], p[3]) :
        d \in {Str},
        q \in { <<NaN, Int2Num(2), Int2Num(1), Int2Num(0)>>,
                <<Int2Num(3), Str, Int2Num(1), Int2Num(0)>>,
                <<Int2Num(3), Int2Num(2), None, Int2Num(0)>>,
                <<Int2Num(3), Int2Num(0), Int2Num(1), NaN>> },
        p \in PriorDerived }

DeriveRows == ComputableRows \cup IncompleteRows

Tables(rowset) ==
    { [cols |-> expected_columns, rows |-> rs] :
        rs \in UNION { [1..n -> rowset] : n \in 0..MaxRows } }

EmptyTable == [cols |-> expected_columns, rows |-> << >>]

\* No table at all (nothing imported, nothing stored).
NoTable == [cols |-> << >>, rows |-> << >>]

NoCache == [valid |-> FALSE, value |-> NoTable]

AppOff ==
    /\ file = EmptyTable
    /\ cache = NoCache
    /\ df = NoTable
    /\ pc = "off"
    /\ mutated = NoTable /\ handed = NoTable
    /\ uploaded = NoTable /\ normOut = NoTable

NoFormula == [name |-> "", expr |-> << >>]

DInit ==
    /\ AppOff
    /\ formula = NoFormula /\ error = ""
    /\ T \in Tables(DeriveRows)
    /\ out = EmptyTable
    /\ out2 = EmptyTable
    /\ dphase = "init"

Derive ==
    /\ dphase = "init"
    /\ out' = derive_data(T)
    /\ dphase' = "derived"
    /\ UNCHANGED <<T, out2, formula, error>>
    /\ UNCHANGED avars

DeriveAgain ==
    /\ dphase = "derived"
    /\ out2' = derive_data(out)
    /\ dphase' = "rederived"
    /\ UNCHANGED <<T, out, formula, error>>
    /\ UNCHANGED avars

DNext == Derive \/ DeriveAgain

SpecDerive == DInit /\ [][DNext]_vars

-----------------------------------------------------------------------------
(* Properties of derive_data, over SpecDerive *)

\* All four required raw fields of the row are numbers.
Computable(r) == \A c \in required_cols : r[c].k = "num"

GradeZero(r) == r["ore_grade"].k = "num" /\ r["ore_grade"].n = 0

InUnit(v) == v.k = "num" /\ 0 <= v.n /\ v.n <= v.d

\* The reference formulas of the specification, on the raw fields of a row.
RefTailings(r) == Add(r["tail_liq_gold"], r["tail_sol_gold"])
RefRatio(r) == Div(Sub(r["ore_grade"], RefTailings(r)), r["ore_grade"])
RefRate(r) ==
    LET q == RefRatio(r)
    IN  IF q.n < 0 THEN Int2Num(0) ELSE IF q.n > q.d THEN Int2Num(1) ELSE q
RefMetal(r) == Mul(Mul(r["tonnage"], r["ore_grade"]), RefRate(r))

SameShape == Len(out.rows) = Len(T.rows)

\* C1: after derive, every row whose four required raw fields are present and
\* whose ore grade is not 0 has its recovery rate in [0,1], whatever the sign
\* or size of the inputs.
C1_RateInUnitInterval ==
    dphase # "init" =>
        /\ SameShape
        /\ \A i \in DOMAIN T.rows :
              Computable(T.rows[i]) /\ ~GradeZero(T.rows[i])
                  => InUnit(out.rows[i]["recovery_rate"])

\* A computable row whose unclamped ratio is above 1 or below 0 and whose
\* recovery rate was 5 before the call has been clamped.
C1_Witness ==
    /\ dphase = "derived"
    /\ \E i \in DOMAIN T.rows, j \in DOMAIN T.rows :
          /\ Computable(T.rows[i]) /\ ~GradeZero(T.rows[i])
          /\ RefRatio(T.rows[i]).n > RefRatio(T.rows[i]).d
          /\ T.rows[i]["recovery_rate"] = Int2Num(5)
          /\ out.rows[i]["recovery_rate"] = Int2Num(1)
          /\ Computable(T.rows[j]) /\ ~GradeZero(T.rows[j])
          /\ RefRatio(T.rows[j]).n < 0
          /\ out.rows[j]["recovery_rate"] = Int2Num(0)

\* C2: after derive, every row whose four required raw fields are present and
\* whose ore grade is not 0 carries the reference formulas in its derived
\* fields, whatever those fields held before the call.
C2_DerivedEqualReference ==
    dphase # "init" =>
        /\ SameShape
        /\ \A i \in DOMAIN T.rows :
              Computable(T.rows[i]) /\ ~GradeZero(T.rows[i]) =>
                  /\ out.rows[i]["tailings_grade"] = RefTailings(T.rows[i])
                  /\ out.rows[i]["recovery_rate"] = RefRate(T.rows[i])
                  /\ out.rows[i]["recovered_metal"] = RefMetal(T.rows[i])

\* A computable row with 5 in its derived fields now holds tailings grade 1,
\* recovery rate 1/2 and recovered metal 3.
C2_Witness ==
    /\ dphase = "derived"
    /\ \E i \in DOMAIN T.rows :
          /\ Computable(T.rows[i]) /\ ~GradeZero(T.rows[i])
          /\ \A c \in DerivedCols : T.rows[i][c] = Int2Num(5)
          /\ out.rows[i]["tailings_grade"] = Int2Num(1)
          /\ out.rows[i]["recovery_rate"] = Num(1, 2)
          /\ out.rows[i]["recovered_metal"] = Int2Num(3)

\* C3: a row that lacks a number in one of the four required raw fields keeps
\* its three derived fields exactly as they were before the call.
C3_IncompleteRowsKeepDerived ==
    dphase # "init" =>
        /\ SameShape
        /\ \A i \in DOMAIN T.rows :
              ~Computable(T.rows[i]) =>
                  \A c \in DerivedCols : out.rows[i][c] = T.rows[i][c]

\* Incomplete rows of each sort (missing, None, not a number) with derived
\* fields set before the call have passed through derive.
C3_Witness ==
    /\ dphase = "derived"
    /\ \E i \in DOMAIN T.rows, j \in DOMAIN T.rows :
          /\ T.rows[i]["ore_grade"] = Str
          /\ \A c \in DerivedCols : T.rows[i][c] = Int2Num(5)
          /\ \A c \in DerivedCols : out.rows[i][c] = Int2Num(5)
          /\ T.rows[j]["tail_liq_gold"] = None
          /\ \A c \in DerivedCols : out.rows[j][c] = None

\* C4: derive is idempotent: derive(derive(T)) = derive(T).
C4_Idempotent == dphase = "rederived" => out2 = out

\* A table mixing a computable row that had derived values and an incomplete
\* row has been derived twice, the first call having changed it.
C4_Witness ==
    /\ dphase = "rederived"
    /\ out # T
    /\ \E i \in DOMAIN T.rows, j \in DOMAIN T.rows :
          /\ Computable(T.rows[i]) /\ ~GradeZero(T.rows[i])
          /\ T.rows[i]["recovery_rate"] = Int2Num(5)
          /\ out.rows[i]["recovery_rate"] # Int2Num(5)
          /\ ~Computable(T.rows[j])

\* C5: a row with all four required raw fields present and ore grade 0 keeps
\* a missing recovery rate: derive sets no number there.
C5_ZeroGradeLeavesRateMissing ==
    dphase # "init" =>
        \A i \in DOMAIN T.rows :
            Computable(T.rows[i]) /\ GradeZero(T.rows[i])
                /\ isna(T.rows[i]["recovery_rate"])
                => isna(out.rows[i]["recovery_rate"])

\* C10: derive keeps the number of rows and their positions: every row comes
\* out at its own position with its raw fields (coerced to numbers), and a
\* computable row's results are written to that position.
C10_RowsKeptInPlace ==
    dphase # "init" =>
        /\ SameShape
        /\ \A i \in DOMAIN T.rows :
              /\ \A c \in numeric_cols :
                    out.rows[i][c] = to_numeric(T.rows[i][c])
              /\ out.rows[i]["date"] = to_datetime(T.rows[i]["date"])
              /\ Computable(T.rows[i]) =>
                    out.rows[i]["tailings_grade"] = RefTailings(T.rows[i])

\* A two-row table whose first row has an unparsable date and a non-numeric
\* ore grade and whose second row is computable, the second row's results
\* being in the second row.
C10_Witness ==
    /\ dphase = "derived"
    /\ Len(T.rows) = 2 /\ Len(out.rows) = 2
    /\ T.rows[1]["date"] = Str /\ T.rows[1]["ore_grade"] = Str
    /\ out.rows[1]["date"] = NaN /\ out.rows[1]["ore_grade"] = NaN
    /\ out.rows[1]["tailings_grade"] = None
    /\ Computable(T.rows[2]) /\ T.rows[2]["tailings_grade"] = None
    /\ out.rows[2]["tailings_grade"] = RefTailings(T.rows[2])

-----------------------------------------------------------------------------
(* Persistence: data.csv, load_data and its cache, save_data *)

\* DataFrame.to_csv(index=False): a missing cell is written as an empty field.
to_csv(t) ==
    [t EXCEPT !.rows =
        [i \in DOMAIN t.rows |->
            [c \in DOMAIN t.rows[i] |->
                IF isna(t.rows[i][c]) THEN Empty ELSE t.rows[i][c]]]]

\* pd.read_csv(parse_dates=['date']): an empty field is read as NaN (NaT).
read_csv(f) ==
    [f EXCEPT !.rows =
        [i \in DOMAIN f.rows |->
            [c \in DOMAIN f.rows[i] |->
                IF f.rows[i][c] = Empty THEN NaN ELSE f.rows[i][c]]]]

\* for col in expected_columns: if col not in t.columns: t[col] = None
add_missing_columns(t) ==
    LET absent == SelectSeq(expected_columns, LAMBDA c : c \notin Range(t.cols))
        cols   == t.cols \o absent
    IN  [cols |-> cols,
         rows |-> [i \in DOMAIN t.rows |->
                     [c \in Range(cols) |->
                        IF c \in Range(t.cols) THEN t.rows[i][c] ELSE None]]]

\* The body of load_data, run on a cache miss.
load_data_body(f) == add_missing_columns(read_csv(f))

\* @st.cache_data load_data(): the cached value when there is one.
load_data(c, f) == IF c.valid THEN c.value ELSE load_data_body(f)

\* A bug save_data could have: the cache is left as it is.
cache_data_kept(c) == c

\* st.cache_data.clear()
cache_data_clear(c) == NoCache

\* save_data up to the write: the text of data.csv.
save_data(df_to_save) == to_csv(normalize_date(df_to_save))

-----------------------------------------------------------------------------
(* The pages *)

\* A bug: the import keeps the file's columns as they come.
select_as_read(t, cols) == t

\* t[cols]: the columns cols, in that order; every other column is dropped.
select_columns(t, cols) ==
    [cols |-> cols,
     rows |-> [i \in DOMAIN t.rows |-> [c \in Range(cols) |-> t.rows[i][c]]]]

\* pd.concat([a, b], ignore_index=True)
concat(a, b) ==
    LET cols == a.cols \o SelectSeq(b.cols, LAMBDA c : c \notin Range(a.cols))
        fill(t, r) == [c \in Range(cols) |->
                          IF c \in Range(t.cols) THEN r[c] ELSE NaN]
    IN  [cols |-> cols,
         rows |-> [i \in DOMAIN a.rows |-> fill(a, a.rows[i])]
                  \o [i \in DOMAIN b.rows |-> fill(b, b.rows[i])]]

\* Headers of the uploaded files: the canonical ones, a permutation with a
\* foreign column and canonical ones absent, and one without the date column.
HeaderChoices ==
    { expected_columns,
      << "remark", "tail_sol_gold", "recovery_rate", "tail_liq_gold",
         "ore_grade", "tonnage", "date" >>,
      << "tonnage", "ore_grade" >> }

AllHeaders == Range(expected_columns) \cup {"remark"}

\* The lines of the uploaded files, as read.
FileLines ==
    { [c \in AllHeaders |->
          CASE c = "date" -> Date(2)
            [] c = "tonnage" -> Int2Num(3)
            [] c = "ore_grade" -> Int2Num(2)
            [] c \in {"tail_liq_gold", "tail_sol_gold"} -> Int2Num(1)
            [] c \in DerivedCols -> Int2Num(5)
            [] c = "remark" -> Str
            [] OTHER -> Int2Num(1)],
      [c \in AllHeaders |->
          CASE c = "date" -> Str
            [] c = "tonnage" -> Int2Num(3)
            [] c = "ore_grade" -> Int2Num(0)
            [] c = "tail_liq_gold" -> Int2Num(1)
            [] c = "tail_sol_gold" -> NaN
            [] c \in DerivedCols -> NaN
            [] c = "remark" -> NaN
            [] OTHER -> Str] }

UploadedFiles ==
    { [cols |-> h, rows |-> [i \in 1..n |-> [c \in Range(h) |-> ls[i][c]]]] :
        h \in HeaderChoices,
        n \in 0..MaxRows,
        ls \in [1..MaxRows -> FileLines] }

\* pd.read_csv(uploaded_file, parse_dates=['date']) raises when the file has
\* no date column.
read_ok(u) == "date" \in Range(u.cols)

\* DataFrame.empty
empty(t) == Len(t.cols) = 0 \/ Len(t.rows) = 0

Init ==
    /\ file = EmptyTable
    /\ cache = NoCache
    /\ df = NoTable
    /\ pc = "run"
    /\ mutated = NoTable /\ handed = NoTable
    /\ uploaded = NoTable /\ normOut = NoTable
    /\ T = NoTable /\ out = NoTable /\ out2 = NoTable /\ dphase = "off"
    /\ formula = NoFormula /\ error = ""

\* A script run starts: df = load_data()
Rerun ==
    /\ pc = "run"
    /\ df' = load_data(cache, file)
    /\ cache' = [valid |-> TRUE, value |-> load_data(cache, file)]
    /\ pc' = "page"
    /\ mutated' = NoTable /\ handed' = NoTable
    /\ uploaded' = NoTable /\ normOut' = NoTable
    /\ UNCHANGED file
    /\ UNCHANGED dvars

\* Input page, file upload, the add-and-save button pressed.
ImportFile ==
    /\ pc = "page"
    /\ \E u \in UploadedFiles :
          /\ read_ok(u)
          /\ ~empty(u)
          /\ Len(df.rows) + Len(u.rows) <= MaxRows
          /\ LET new_data_from_file ==
                     select_columns(add_missing_columns(u), expected_columns)
                 combined_df == concat(df, new_data_from_file)
             IN  /\ uploaded' = u
                 /\ normOut' = new_data_from_file
                 /\ mutated' = combined_df
                 /\ handed' = derive_data(combined_df)
                 /\ file' = save_data(derive_data(combined_df))
    /\ cache' = cache_data_clear(cache)
    /\ pc' = "run"
    /\ df' = NoTable
    /\ UNCHANGED dvars

\* Input page, file upload: the file cannot be read (no date column) or has
\* no line; an error or a warning is shown and nothing is stored.
ImportRefused ==
    /\ pc = "page"
    /\ \E u \in UploadedFiles :
          /\ ~read_ok(u) \/ empty(u)
          /\ uploaded' = u
    /\ mutated' = NoTable /\ handed' = NoTable
    /\ normOut' = NoTable
    /\ pc' = "run"
    /\ df' = NoTable
    /\ UNCHANGED <<file, cache>>
    /\ UNCHANGED dvars

\* What the operator types into the form: tonnage, ore grade, liquid gold,
\* solid gold (number_input, min_value=0.0); the other five inputs are 1.
FormInputs ==
    { <<3, 4, 1, 2>>, <<3, 1, 1, 1>>, <<3, 0, 1, 1>> }

new_row(date, q) ==
    [c \in Range(expected_columns) |->
        CASE c = "date"            -> date
          [] c = "tonnage"         -> Int2Num(q[1])
          [] c = "ore_grade"       -> Int2Num(q[2])
          [] c = "tail_liq_gold"   -> Int2Num(q[3])
          [] c = "tail_sol_gold"   -> Int2Num(q[4])
          [] c \in DerivedCols     -> None
          [] OTHER                 -> Int2Num(1)]

\* if not all([...]): every input must be non-zero
all_filled(q) == \A k \in DOMAIN q : q[k] # 0

\* Input page, the form submitted with every item filled.
ManualEntry ==
    /\ pc = "page"
    /\ Len(df.rows) < MaxRows
    /\ \E q \in FormInputs :
          /\ all_filled(q)
          /\ LET combined_df ==
                     concat(df, [cols |-> expected_columns,
                                 rows |-> << new_row(Date(1), q) >>])
             IN  /\ mutated' = combined_df
                 /\ handed' = derive_data(combined_df)
                 /\ file' = save_data(derive_data(combined_df))
    /\ cache' = cache_data_clear(cache)
    /\ uploaded' = NoTable /\ normOut' = NoTable
    /\ pc' = "run"
    /\ df' = NoTable
    /\ UNCHANGED dvars

\* Input page, the form submitted with a zero item: a warning, nothing stored.
ManualRefused ==
    /\ pc = "page"
    /\ \E q \in FormInputs : ~all_filled(q)
    /\ mutated' = NoTable /\ handed' = NoTable
    /\ uploaded' = NoTable /\ normOut' = NoTable
    /\ pc' = "run"
    /\ df' = NoTable
    /\ UNCHANGED <<file, cache>>
    /\ UNCHANGED dvars

\* What st.data_editor(num_rows="dynamic") can return for the table t: a cell
\* changed, a row deleted, a row added.
EditCols == {"ore_grade"}
EditVals == {Int2Num(4)}

data_editor(t) ==
    { [t EXCEPT !.rows[i][c] = v] :
          i \in DOMAIN t.rows, c \in EditCols, v \in EditVals }
    \cup { [t EXCEPT !.rows =
               [k \in 1..(Len(t.rows) - 1) |->
                   IF k < i THEN t.rows[k] ELSE t.rows[k + 1]]] :
             i \in DOMAIN t.rows }
    \cup ( IF Len(t.rows) < MaxRows
           THEN { [t EXCEPT !.rows =
                      Append(t.rows, [c \in Range(t.cols) |-> None])] }
           ELSE { } )

\* View page: the table shown is derive_data(df); the operator edits it and
\* the edited table is saved.
EditSave ==
    /\ pc = "page"
    /\ ~empty(derive_data(df))
    /\ \E edited_df \in data_editor(derive_data(df)) :
          /\ edited_df # derive_data(df)
          /\ mutated' = edited_df
          /\ handed' = edited_df
          /\ file' = save_data(edited_df)
    /\ cache' = cache_data_clear(cache)
    /\ uploaded' = NoTable /\ normOut' = NoTable
    /\ pc' = "run"
    /\ df' = NoTable
    /\ UNCHANGED dvars

\* View page without an edit, or the chart page: nothing is stored.
ViewOnly ==
    /\ pc = "page"
    /\ mutated' = NoTable /\ handed' = NoTable
    /\ uploaded' = NoTable /\ normOut' = NoTable
    /\ pc' = "run"
    /\ df' = NoTable
    /\ UNCHANGED <<file, cache>>
    /\ UNCHANGED dvars

Next ==
    \/ Rerun
    \/ ImportFile
    \/ ImportRefused
    \/ ManualEntry
    \/ ManualRefused
    \/ EditSave
    \/ ViewOnly

Spec == Init /\ [][Next]_vars

-----------------------------------------------------------------------------
(* Properties of the pages and of the persistence, over Spec *)

\* The table with every missing cell written as NaN: None and NaN are one
\* missing value to the operator.
Canon(t) ==
    [t EXCEPT !.rows =
        [i \in DOMAIN t.rows |->
            [c \in DOMAIN t.rows[i] |->
                IF isna(t.rows[i][c]) THEN NaN ELSE t.rows[i][c]]]]

\* C6: every table handed to save_data after a raw-data mutation (manual
\* entry, file import, in-table edit) is derive_data of the mutated table
\* (whichever marker stands for a missing cell).
C6_StoredIsDerived ==
    pc = "run" /\ handed # NoTable =>
        Canon(handed) = Canon(derive_data(mutated))

\* C7: a load that follows a store returns the table of the most recent
\* store: the store has written the file and emptied the load cache, and the
\* df of a script run is what data.csv holds, never an older cached copy.
C7_LoadReturnsLastStore ==
    /\ pc = "run" /\ handed # NoTable =>
          file = save_data(handed) /\ ~cache.valid
    /\ pc = "page" => df = load_data_body(file)

\* A run has loaded the two rows of two successive stores (a manual entry,
\* then an import), each store following a load that filled the cache.
C7_Witness ==
    /\ pc = "page"
    /\ cache.valid
    /\ Len(df.rows) = 2
    /\ df.rows[1]["date"] = Date(1)
    /\ df.rows[2]["date"] = Date(2)
    /\ df = load_data_body(file)

\* What the import normalisation is to yield for the uploaded file u: the 13
\* canonical columns in canonical order, a foreign header dropped, an absent
\* canonical column None in every line.
Normalized(u, t) ==
    /\ t.cols = expected_columns
    /\ Len(t.rows) = Len(u.rows)
    /\ \A i \in DOMAIN t.rows :
          /\ DOMAIN t.rows[i] = Range(expected_columns)
          /\ \A c \in Range(expected_columns) :
                t.rows[i][c] =
                    IF c \in Range(u.cols) THEN u.rows[i][c] ELSE None

\* C9 as stated: whatever the headers of an uploaded file with lines and
\* their order, the import normalisation yields the canonical table.
C9_AnyHeaders ==
    pc = "run" /\ uploaded # NoTable /\ Len(uploaded.rows) > 0 =>
        Normalized(uploaded, normOut)

\* C9, amended: whatever the headers of an uploaded file with lines and their
\* order, provided the date header is among them, the import normalisation
\* yields the canonical table.
C9_NormalizedColumns ==
    pc = "run" /\ uploaded # NoTable /\ Len(uploaded.rows) > 0
        /\ "date" \in Range(uploaded.cols) =>
            Normalized(uploaded, normOut)

\* A two-line file with a foreign header, out-of-order headers and absent
\* canonical columns has been normalised.
C9_Witness ==
    /\ pc = "run"
    /\ handed # NoTable
    /\ Len(uploaded.rows) = 2
    /\ uploaded.cols[1] = "remark"
    /\ "recovered_metal" \notin Range(uploaded.cols)
    /\ normOut.cols = expected_columns
    /\ "remark" \notin DOMAIN normOut.rows[1]
    /\ normOut.rows[2]["recovered_metal"] = None
    /\ normOut.rows[2]["tonnage"] = uploaded.rows[2]["tonnage"]

-----------------------------------------------------------------------------
(* The formula evaluator evaluate(table, name, expression), section 4.2 of  *)
(* the specification.  An expression is a sequence of tokens: column        *)
(* names, numeric literals, + - * / and parentheses.                        *)

Operators == {"+", "-", "*", "/"}
Literals == {"2"}
LiteralValue(tok) == Int2Num(2)

Failed == [ok |-> FALSE, v |-> NaN, rest |-> << >>]

\* Row-wise arithmetic: a division by zero or a missing operand is missing.
Apply(op, a, b) ==
    CASE op = "+" -> Add(a, b)
      [] op = "-" -> Sub(a, b)
      [] op = "*" -> Mul(a, b)
      [] op = "/" -> IF b.k = "num" /\ b.n = 0 THEN NaN ELSE Div(a, b)

RECURSIVE ParseExpr(_, _), ParseTerm(_, _), ParseFactor(_, _),
          ExprTail(_, _, _), TermTail(_, _, _)

\* factor ::= literal | column | "(" expr ")"
ParseFactor(toks, r) ==
    IF toks = << >> THEN Failed
    ELSE IF Head(toks) \in Literals
         THEN [ok |-> TRUE, v |-> LiteralValue(Head(toks)), rest |-> Tail(toks)]
    ELSE IF Head(toks) = "("
         THEN LET e == ParseExpr(Tail(toks), r)
              IN  IF e.ok /\ e.rest # << >> /\ Head(e.rest) = ")"
                  THEN [e EXCEPT !.rest = Tail(e.rest)]
                  ELSE Failed
    ELSE IF Head(toks) \in DOMAIN r
         THEN [ok |-> TRUE, v |-> r[Head(toks)], rest |-> Tail(toks)]
    ELSE Failed

\* term ::= factor { ("*" | "/") factor }
TermTail(acc, toks, r) ==
    IF toks # << >> /\ Head(toks) \in {"*", "/"}
    THEN LET f == ParseFactor(Tail(toks), r)
         IN  IF f.ok THEN TermTail(Apply(Head(toks), acc, f.v), f.rest, r)
             ELSE Failed
    ELSE [ok |-> TRUE, v |-> acc, rest |-> toks]

ParseTerm(toks, r) ==
    LET f == ParseFactor(toks, r)
    IN  IF f.ok THEN TermTail(f.v, f.rest, r) ELSE Failed

\* expr ::= term { ("+" | "-") term }
ExprTail(acc, toks, r) ==
    IF toks # << >> /\ Head(toks) \in {"+", "-"}
    THEN LET f == ParseTerm(Tail(toks), r)
         IN  IF f.ok THEN ExprTail(Apply(Head(toks), acc, f.v), f.rest, r)
             ELSE Failed
    ELSE [ok |-> TRUE, v |-> acc, rest |-> toks]

ParseExpr(toks, r) ==
    LET f == ParseTerm(toks, r)
    IN  IF f.ok THEN ExprTail(f.v, f.rest, r) ELSE Failed

\* The value of the expression on one row; its validity does not depend on
\* the row's values.
Scalar(expr, r) ==
    LET e == ParseExpr(expr, r)
    IN  IF e.ok /\ e.rest = << >> THEN e ELSE Failed

Valid(expr, cols) == Scalar(expr, [c \in Range(cols) |-> NaN]).ok

\* The table with column name set to the expression's value in every row.
assign_column(t, name, expr) ==
    [cols |-> IF name \in Range(t.cols) THEN t.cols ELSE Append(t.cols, name),
     rows |-> [i \in DOMAIN t.rows |->
                 [c \in Range(t.cols) \cup {name} |->
                    IF c = name THEN Scalar(expr, t.rows[i]).v
                    ELSE t.rows[i][c]]]]

\* A bug: the column is created before the expression is checked and stays
\* when the check fails.
evaluate_creates_first(t, name, expr) ==
    IF Valid(expr, t.cols)
    THEN [table |-> assign_column(t, name, expr), error |-> ""]
    ELSE [table |-> assign_column(t, name, << >>), error |-> "FormulaInvalid"]

evaluate(t, name, expr) ==
    IF Valid(expr, t.cols)
    THEN [table |-> assign_column(t, name, expr), error |-> ""]
    ELSE [table |-> t, error |-> "FormulaInvalid"]

ColumnNames == {"metal_calc", "recovery_rate"}

Expressions ==
    { << "tonnage", "*", "ore_grade", "*", "recovery_rate" >>,
      << "(", "ore_grade", "-", "tailings_grade", ")", "/", "ore_grade" >>,
      << "tonnage", "/", "2" >>,
      << "tonnage", "*", "moisture" >>,
      << "moisture" >>,
      << "tonnage", "*" >>,
      << "exec", "(", "tonnage", ")" >> }

EvalRows ==
    { Row(Date(1), Int2Num(100), Int2Num(2), Int2Num(1), Int2Num(0),
          None, None, None),
      Row(Date(1), Int2Num(3), Int2Num(0), Int2Num(0), Int2Num(0),
          None, None, None),
      Row(Str, NaN, Int2Num(2), Int2Num(1), Int2Num(0),
          Int2Num(5), Int2Num(5), Int2Num(5)) }

\* evaluate is called on an already derived table.
EInit ==
    /\ AppOff
    /\ T \in { derive_data(t) : t \in Tables(EvalRows) }
    /\ out = NoTable /\ out2 = NoTable
    /\ formula = NoFormula /\ error = ""
    /\ dphase = "init"

Evaluate ==
    /\ dphase = "init"
    /\ \E name \in ColumnNames, expr \in Expressions :
          /\ formula' = [name |-> name, expr |-> expr]
          /\ out' = evaluate(T, name, expr).table
          /\ error' = evaluate(T, name, expr).error
    /\ dphase' = "evaluated"
    /\ UNCHANGED <<T, out2>>
    /\ UNCHANGED avars

ENext == Evaluate

SpecEval == EInit /\ [][ENext]_vars

\* A token that names something and is no column of the table.
RefersToUnknownColumn(expr, cols) ==
    \E k \in DOMAIN expr :
        expr[k] \notin Operators \cup Literals \cup {"(", ")"} \cup Range(cols)

\* C8: evaluate with an expression that refers to a column the table does not
\* have returns FormulaInvalid and leaves the table as it was: no column is
\* added and no value is changed.
C8_UnknownColumnIsAtomicFailure ==
    dphase = "evaluated" /\ RefersToUnknownColumn(formula.expr, T.cols) =>
        error = "FormulaInvalid" /\ out = T

\* tonnage * moisture has been refused on a table with rows, for a new column
\* name and for the name of an existing column.
C8_Witness ==
    /\ dphase = "evaluated"
    /\ formula.expr = << "tonnage", "*", "moisture" >>
    /\ formula.name = "metal_calc"
    /\ Len(T.rows) = MaxRows
    /\ error = "FormulaInvalid"
    /\ out = T

=============================================================================
